---- MODULE Spec2Model ----
(***************************************************************************)
(* A model of the questionnaire matching pipeline of question_copy:        *)
(* the two question stores built by Questionnaire._build_questions, the    *)
(* exact matcher, the semantic matching request and the application of     *)
(* its verdicts, the answer scoring request and the application of its     *)
(* scores, and the assembly of the combined table by main().               *)
(*                                                                         *)
(* Texts are sequences of characters, so that trimming, whitespace         *)
(* collapsing and comparison are computed and not assumed.  Scores are     *)
(* integers in hundredths: the program's 1 is ScoreOne, its 0.85 is        *)
(* AccuracyThreshold.                                                      *)
(***************************************************************************)
EXTENDS Integers, Sequences, FiniteSets, TLC

VARIABLES
    reference_questionnaire,        \* Reference_Questionnaire: [order, questions]
    unanswered_questionnaire,       \* Unanswered_Questionnaire: [order, questions]
    pc,                             \* position of main() in the pipeline
    unanswered_questions_remaining, \* set returned by _match_exact_questions
    reference_questions_remaining,  \* set returned by _match_exact_questions
    match_response,                 \* how the matching collaborator answered
    matches_read,                   \* entries of best_matches the loop has read
    verdict_of,                     \* best_matches: the last entry read for each question
    items_json,                     \* batch built by _get_items_for_answer_matching
    score_response,                 \* how the scoring collaborator answered
    results_read,                   \* entries of results the loop has read
    result_of,                      \* results: the last entry applied to each question
    match_requests,                 \* requests issued by the semantic stage
    score_requests,                 \* requests issued by the scoring stage
    combined_questionnaire_rows,    \* rows built by generate_combined_questionnaire
    output_written,                 \* whether the output table was saved
    exit_status,                    \* process exit status: -1 while running
    raised_in,                      \* the stage whose exception ended the run
    call,                           \* a helper called on its own: [op, arg, returned, result]
    worksheet                       \* the saved table: [styled, values, fill]

vars == <<reference_questionnaire, unanswered_questionnaire, pc,
          unanswered_questions_remaining, reference_questions_remaining,
          match_response, matches_read, verdict_of, items_json, score_response,
          results_read, result_of, match_requests, score_requests,
          combined_questionnaire_rows, output_written, exit_status, raised_in, call,
          worksheet>>

(***************************************************************************)
(* Values                                                                  *)
(***************************************************************************)

\* Python's None, as a text that no character sequence equals.
None == <<"None">>

\* A missing (NaN) cell of the loaded table.
NaN == <<"NaN">>

\* The empty string.
EmptyText == <<>>

\* The integer 0 and the boolean True, as values that are not texts.
Zero == <<"Zero">>
TrueValue == <<"True">>

\* The program's score 1, in hundredths.
ScoreOne == 100

\* The default accuracy_threshold 0.85, in hundredths.
AccuracyThreshold == 85

(***************************************************************************)
(* Text functions                                                          *)
(***************************************************************************)

\* Characters that Python's \s and str.strip() treat as whitespace.
SpaceChars == {" ", "TAB", "NBSP"}

\* Characters for which str.isalnum() is true.
AlnumChars ==
    {"A", "B", "C", "L", "N", "S", "T", "U", "Y",
     "a", "b", "c", "e", "l", "n", "o", "r", "s", "t", "u", "y", "0", "1"}

\* unicodedata.normalize("NFKC", c) for one character: the no-break space
\* becomes a space, the fullwidth letter becomes the plain letter, and the
\* spacing diaeresis becomes a space followed by the combining diaeresis
\* (which, after a space or at the start of a text, composes with nothing).
NFKCChar(c) ==
    CASE c = "NBSP" -> <<" ">>
      [] c = "FW_A" -> <<"A">>
      [] c = "DIAERESIS" -> <<" ", "COMB">>
      [] OTHER -> <<c>>

RECURSIVE NFKC(_)
NFKC(text) == IF text = <<>> THEN <<>> ELSE NFKCChar(Head(text)) \o NFKC(Tail(text))

\* _SPACE_RE.sub(" ", text): every run of whitespace becomes one space.
RECURSIVE CollapseSpaces(_)
CollapseSpaces(text) ==
    IF text = <<>> THEN <<>>
    ELSE IF Head(text) \in SpaceChars
         THEN IF Len(text) > 1 /\ text[2] \in SpaceChars
              THEN CollapseSpaces(Tail(text))
              ELSE <<" ">> \o CollapseSpaces(Tail(text))
         ELSE <<Head(text)>> \o CollapseSpaces(Tail(text))

RECURSIVE LStrip(_)
LStrip(text) ==
    IF text # <<>> /\ Head(text) \in SpaceChars THEN LStrip(Tail(text)) ELSE text

RECURSIVE RStrip(_)
RStrip(text) ==
    IF text # <<>> /\ text[Len(text)] \in SpaceChars
    THEN RStrip(SubSeq(text, 1, Len(text) - 1))
    ELSE text

\* str.strip()
Strip(text) == RStrip(LStrip(text))

\* str.lower() for one character.
LowerChar(c) ==
    CASE c = "A" -> "a"
      [] c = "B" -> "b"
      [] c = "N" -> "n"
      [] c = "Y" -> "y"
      [] c = "S" -> "s"
      [] c = "C" -> "c"
      [] c = "L" -> "l"
      [] c = "T" -> "t"
      [] c = "U" -> "u"
      [] OTHER -> c

Lower(text) == [i \in 1..Len(text) |-> LowerChar(text[i])]

\* Questionnaire._clean_question trimming first: strip, then NFKC, then the
\* whitespace collapse.
CleanQuestion_StripsFirst(text) == CollapseSpaces(NFKC(Strip(text)))

\* Questionnaire._clean_question as its docstring describes it: the text is
\* also converted to lowercase.
CleanQuestion_Lowercases(text) == Lower(Strip(CollapseSpaces(NFKC(text))))

\* Questionnaire._clean_question
CleanQuestion(text) == Strip(CollapseSpaces(NFKC(text)))

\* pd.isna(value)
IsNa(value) == value = NaN

\* str(value): a NaN prints as "nan", None as "None", 0 as "0", True as
\* "True", a text is itself.
Str(value) ==
    IF value = NaN THEN <<"n", "a", "n">>
    ELSE IF value = None THEN <<"N", "o", "n", "e">>
    ELSE IF value = Zero THEN <<"0">>
    ELSE IF value = TrueValue THEN <<"T", "r", "u", "e">>
    ELSE value

\* The textual null values _has_meaningful_content rejects.
NullTexts == {<<"n", "a", "n">>, <<"n", "o", "n", "e">>, <<"n", "u", "l", "l">>, <<>>}

\* Questionnaire_Filler._has_meaningful_content
HasMeaningfulContent(text) ==
    IF text = None THEN FALSE
    ELSE IF IsNa(text) THEN FALSE
    ELSE IF Lower(Str(text)) \in NullTexts THEN FALSE
    ELSE LET stripped == Strip(Str(text))
         IN  Len(stripped) > 0 /\ \E i \in 1..Len(stripped) : stripped[i] \in AlnumChars

(***************************************************************************)
(* The question stores                                                     *)
(***************************************************************************)

\* Question.__init__ with the default question_match_score 1 instead of 0.
NewQuestion_DefaultScoreOne(question, question_id, is_reference) ==
    [question |-> question,
     answer |-> EmptyText,
     question_id |-> question_id,
     is_reference |-> is_reference,
     reference_question |-> IF is_reference THEN question ELSE EmptyText,
     question_match_score |-> ScoreOne,
     answer_match_score |-> 0]

\* Question.__init__
NewQuestion(question, question_id, is_reference) ==
    [question |-> question,
     answer |-> EmptyText,
     question_id |-> question_id,
     is_reference |-> is_reference,
     reference_question |-> IF is_reference THEN question ELSE EmptyText,
     question_match_score |-> 0,
     answer_match_score |-> 0]

\* The test of _build_questions that decides whether a row's answer is stored.
AnswerIsSet(answer_value) ==
    answer_value # None /\ ~IsNa(answer_value) /\ Strip(Str(answer_value)) # <<>>

\* The loop body of _build_questions keeping the record a key already has,
\* instead of replacing it.
BuildRow_KeepsFirst(store, row, index) ==
    LET curr_question == CleanQuestion(row.question)
        blank == NewQuestion(curr_question, index, store.is_reference)
        question_obj == IF AnswerIsSet(row.answer)
                        THEN [blank EXCEPT !.answer = row.answer]
                        ELSE blank
    IN  IF curr_question \in DOMAIN store.questions THEN store
        ELSE [store EXCEPT !.order = Append(@, curr_question),
                           !.questions = (curr_question :> question_obj) @@ @]

\* One iteration of the loop of _build_questions: the row at (0-based) index.
BuildRow(store, row, index) ==
    LET curr_question == CleanQuestion(row.question)
        blank == NewQuestion(curr_question, index, store.is_reference)
        question_obj == IF AnswerIsSet(row.answer)
                        THEN [blank EXCEPT !.answer = row.answer]
                        ELSE blank
    IN  [store EXCEPT
            !.order = IF curr_question \in DOMAIN store.questions
                      THEN @ ELSE Append(@, curr_question),
            !.questions = IF curr_question \in DOMAIN @
                          THEN [@ EXCEPT ![curr_question] = question_obj]
                          ELSE (curr_question :> question_obj) @@ @]

\* Questionnaire._build_questions: the rows of the table in order.
RECURSIVE BuildFrom(_, _, _)
BuildFrom(store, rows, index) ==
    IF index >= Len(rows) THEN store
    ELSE BuildFrom(BuildRow(store, rows[index + 1], index), rows, index + 1)

BuildQuestions(rows, is_reference) ==
    BuildFrom([order |-> <<>>, questions |-> <<>>, is_reference |-> is_reference], rows, 0)

(***************************************************************************)
(* Inputs: the two source tables                                           *)
(***************************************************************************)

\* The key of static_compliance_matches (the long compliance question).
StaticQuestion == <<"S">>

\* The value of static_compliance_matches ("Classification").
Classification == <<"C">>

\* Questionnaire_Filler.static_compliance_matches
StaticComplianceMatches == (StaticQuestion :> Classification)

\* Rows of the unanswered tables the pipeline is run on: raw question text
\* and answer cell.
UnansweredRowSet ==
    {[question |-> <<"A">>, answer |-> <<"Y">>],
     [question |-> <<"A">>, answer |-> NaN],
     [question |-> <<"B">>, answer |-> <<"N">>],
     [question |-> StaticQuestion, answer |-> <<"Y">>]}

\* The unanswered tables the pipeline is run on: at most two rows.
UnansweredTables ==
    {<<>>} \cup {<<r>> : r \in UnansweredRowSet}
           \cup {<<r1, r2>> : r1 \in UnansweredRowSet, r2 \in UnansweredRowSet}

\* The reference tables the pipeline is run on; the last one has a row whose
\* question cell is blank.
ReferenceTables ==
    {<<>>,
     <<[question |-> <<"A">>, answer |-> <<"Y">>]>>,
     <<[question |-> <<"A", " ">>, answer |-> <<"N">>],
       [question |-> Classification, answer |-> <<"N">>]>>,
     <<[question |-> StaticQuestion, answer |-> NaN],
       [question |-> <<"A">>, answer |-> <<"Y">>]>>,
     <<[question |-> <<" ">>, answer |-> <<"Y">>]>>}

MaxUnansweredRows == 2
MaxReferenceRows == 2

\* Raw question texts of the tables the exact matcher is run on: plain,
\* padded, compatibility-equivalent and case variants of one question, another
\* question, and the two texts of the static table.
RawQuestions ==
    {<<"A">>, <<"TAB", "A", " ">>, <<"FW_A">>, <<"a">>, <<"B">>, StaticQuestion}

RawReferenceQuestions ==
    {<<"A">>, <<"A", "NBSP">>, <<"a">>, StaticQuestion, Classification}

\* All tables of at most n rows over a row set.
RECURSIVE TablesOver(_, _)
TablesOver(rows, n) ==
    IF n = 0 THEN {<<>>}
    ELSE LET shorter == TablesOver(rows, n - 1)
         IN  shorter \cup {Append(t, r) : t \in {s \in shorter : Len(s) = n - 1}, r \in rows}

WideUnansweredTables ==
    TablesOver({[question |-> q, answer |-> a] : q \in RawQuestions, a \in {<<"Y">>, NaN}},
               MaxUnansweredRows)

WideReferenceTables ==
    TablesOver({[question |-> q, answer |-> <<"Y">>] : q \in RawReferenceQuestions},
               MaxReferenceRows)

(***************************************************************************)
(* Exact matcher                                                           *)
(***************************************************************************)

\* The loop body of _match_exact_questions without line 197: a direct match
\* links the record and leaves its score alone.
MatchExactStep_DirectScoreUnset(st, reference_questions, question) ==
    LET direct == question \in DOMAIN reference_questions
        matched_question == reference_questions[question].question
        st1 == IF direct
               THEN [questions |-> [st.questions EXCEPT
                                       ![question].reference_question = matched_question],
                     unanswered_remaining |-> st.unanswered_remaining \ {question},
                     reference_remaining |-> st.reference_remaining \ {matched_question}]
               ELSE st
        static == question \in DOMAIN StaticComplianceMatches
    IN  IF static
        THEN [questions |-> [st1.questions EXCEPT
                                ![question].reference_question = StaticComplianceMatches[question],
                                ![question].question_match_score = ScoreOne],
              unanswered_remaining |-> st1.unanswered_remaining \ {question},
              reference_remaining |-> st1.reference_remaining \ {StaticComplianceMatches[question]}]
        ELSE st1

\* The loop body of _match_exact_questions without line 211: a question matched
\* by the static table stays in the remaining set.
MatchExactStep_StaticKeptRemaining(st, reference_questions, question) ==
    LET direct == question \in DOMAIN reference_questions
        matched_question == reference_questions[question].question
        st1 == IF direct
               THEN [questions |-> [st.questions EXCEPT
                                       ![question].reference_question = matched_question,
                                       ![question].question_match_score = ScoreOne],
                     unanswered_remaining |-> st.unanswered_remaining \ {question},
                     reference_remaining |-> st.reference_remaining \ {matched_question}]
               ELSE st
        static == question \in DOMAIN StaticComplianceMatches
    IN  IF static
        THEN [questions |-> [st1.questions EXCEPT
                                ![question].reference_question = StaticComplianceMatches[question],
                                ![question].question_match_score = ScoreOne],
              unanswered_remaining |-> st.unanswered_remaining,
              reference_remaining |-> st1.reference_remaining \ {StaticComplianceMatches[question]}]
        ELSE st1

\* The loop body of _match_exact_questions with the static table consulted
\* only when the direct lookup fails (elif in place of the second if).
MatchExactStep_DirectWins(st, reference_questions, question) ==
    LET direct == question \in DOMAIN reference_questions
        static == question \in DOMAIN StaticComplianceMatches
        target == IF direct THEN reference_questions[question].question
                  ELSE StaticComplianceMatches[question]
    IN  IF direct \/ static
        THEN [questions |-> [st.questions EXCEPT
                                ![question].reference_question = target,
                                ![question].question_match_score = ScoreOne],
              unanswered_remaining |-> st.unanswered_remaining \ {question},
              reference_remaining |-> st.reference_remaining \ {target}]
        ELSE st

\* One iteration of the loop of _match_exact_questions (lines 185-212).
\* st = [questions, unanswered_remaining, reference_remaining].
MatchExactStep(st, reference_questions, question) ==
    LET direct == question \in DOMAIN reference_questions
        matched_question == reference_questions[question].question
        st1 == IF direct
               THEN [questions |-> [st.questions EXCEPT
                                       ![question].reference_question = matched_question,
                                       ![question].question_match_score = ScoreOne],
                     unanswered_remaining |-> st.unanswered_remaining \ {question},
                     reference_remaining |-> st.reference_remaining \ {matched_question}]
               ELSE st
        static == question \in DOMAIN StaticComplianceMatches
    IN  IF static
        THEN [questions |-> [st1.questions EXCEPT
                                ![question].reference_question = StaticComplianceMatches[question],
                                ![question].question_match_score = ScoreOne],
              unanswered_remaining |-> st1.unanswered_remaining \ {question},
              reference_remaining |-> st1.reference_remaining \ {StaticComplianceMatches[question]}]
        ELSE st1

RECURSIVE MatchExactLoop(_, _, _, _)
MatchExactLoop(st, reference_questions, order, i) ==
    IF i > Len(order) THEN st
    ELSE MatchExactLoop(MatchExactStep(st, reference_questions, order[i]),
                        reference_questions, order, i + 1)

\* Questionnaire_Filler._match_exact_questions
MatchExactQuestions(reference, unanswered) ==
    MatchExactLoop([questions |-> unanswered.questions,
                    unanswered_remaining |-> DOMAIN unanswered.questions,
                    reference_remaining |-> DOMAIN reference.questions],
                   reference.questions, unanswered.order, 1)

(***************************************************************************)
(* The collaborators' answers                                              *)
(***************************************************************************)

MaxMatches == 2
MaxResults == 2

\* A field the collaborator left out of an entry.
Missing == <<"Missing">>

\* A question text that is a key of neither store.
UnknownQuestion == <<"U">>

\* Similarities and scores a collaborator may return, in hundredths:
\* inside [0,1], exactly 1, above 1, below 0, and exactly the threshold.
Similarities == {50, ScoreOne, 150}
Scores == {-50, 50, AccuracyThreshold}

\* "match": null
NullMatch == [kind |-> "null", matched_question |-> None, similarity |-> 0]

\* An entry without a "match" field.
MissingMatch == [kind |-> "missing", matched_question |-> None, similarity |-> 0]

\* "match": {"matched_question": ..., "similarity": ...}
MatchObject(matched_question, similarity) ==
    [kind |-> "object", matched_question |-> matched_question, similarity |-> similarity]

MatchEntry(unmatched_question, match, no_match) ==
    [unmatched_question |-> unmatched_question, match |-> match, no_match |-> no_match]

\* No entry of best_matches read so far names the question.
NoVerdict == MatchEntry(Missing, [kind |-> "unread", matched_question |-> None, similarity |-> 0], FALSE)

\* The entries the matching collaborator may put in its "matches" array, given
\* the stores: well-formed verdicts for any question (asked about or not,
\* known or not) and any reference text (known or not), verdicts whose
\* no_match contradicts match, and entries that lack a field.
MatchEntries(reference, unanswered) ==
    LET named == DOMAIN unanswered.questions \cup {UnknownQuestion}
        targets == DOMAIN reference.questions \cup {UnknownQuestion}
    IN  {MatchEntry(Missing, NullMatch, TRUE)}
        \cup {MatchEntry(q, MissingMatch, FALSE) : q \in named}
        \cup {MatchEntry(q, NullMatch, TRUE) : q \in named}
        \cup {MatchEntry(q, MatchObject(r, sim), FALSE) : q \in named, r \in targets, sim \in Similarities}
        \cup {MatchEntry(q, MatchObject(r, 50), TRUE) : q \in named, r \in targets}

\* {"q": ..., "s": ...}; kind "no_s" is an object without "s", kind "invalid"
\* an entry that is not an object.
ResultEntry(kind, q, s) == [kind |-> kind, q |-> q, s |-> s]

\* No entry of results applied so far names the question. For a question,
\* result_of holds the last entry applied to it and, in returned, the "s" of
\* every {q, s} entry applied to it.
NoResult == [kind |-> "unread", q |-> None, s |-> 0, returned |-> {}]

\* The entries the scoring collaborator may put in its "results" array.
ResultEntries(unanswered) ==
    {ResultEntry("invalid", None, 0)}
    \cup {ResultEntry("object", None, sc) : sc \in Scores}
    \cup {ResultEntry("no_s", q, 0) : q \in DOMAIN unanswered.questions}
    \cup {ResultEntry("object", q, sc) : q \in DOMAIN unanswered.questions \cup {UnknownQuestion}, sc \in Scores}

\* How a request ends: the transport fails, the content is not JSON, or the
\* content parses.
ResponseKinds == {"transport_error", "unparseable", "parsed"}

(***************************************************************************)
(* Initial state: main() has constructed the Questionnaire_Filler          *)
(***************************************************************************)

\* No table has been saved.
NoWorksheet == [styled |-> FALSE, values |-> <<>>, fill |-> <<>>]

\* The state main() is in once Questionnaire_Filler.__init__ has built the two
\* stores from the given tables.
Constructed(reference_rows, unanswered_rows) ==
    /\ reference_questionnaire = BuildQuestions(reference_rows, TRUE)
    /\ unanswered_questionnaire = BuildQuestions(unanswered_rows, FALSE)
    /\ pc = "start"
    /\ unanswered_questions_remaining = {}
    /\ reference_questions_remaining = {}
    /\ match_response = "none"
    /\ matches_read = 0
    /\ verdict_of = [q \in DOMAIN unanswered_questionnaire.questions |-> NoVerdict]
    /\ items_json = <<>>
    /\ score_response = "none"
    /\ results_read = 0
    /\ result_of = [q \in DOMAIN unanswered_questionnaire.questions |-> NoResult]
    /\ match_requests = 0
    /\ score_requests = 0
    /\ combined_questionnaire_rows = <<>>
    /\ output_written = FALSE
    /\ exit_status = -1
    /\ raised_in = "none"
    /\ worksheet = NoWorksheet

\* A call of a helper with an argument, before it returns.
Called(op, arg) == [op |-> op, arg |-> arg, returned |-> FALSE, result |-> None]

\* No helper is being called on its own: the pipeline runs.
NoCall == [op |-> "none", arg |-> None, returned |-> FALSE, result |-> None]

Init ==
    /\ \E reference_rows \in ReferenceTables, unanswered_rows \in UnansweredTables :
           Constructed(reference_rows, unanswered_rows)
    /\ call = NoCall

InitExact ==
    /\ \E reference_rows \in WideReferenceTables, unanswered_rows \in WideUnansweredTables :
           Constructed(reference_rows, unanswered_rows)
    /\ call = NoCall

(***************************************************************************)
(* Stage 1: exact matching                                                 *)
(***************************************************************************)

\* _match_questions_to_reference, line 277: the call of _match_exact_questions.
ExactMatch ==
    /\ pc = "start"
    /\ LET st == MatchExactQuestions(reference_questionnaire, unanswered_questionnaire)
       IN  /\ unanswered_questionnaire' = [unanswered_questionnaire EXCEPT !.questions = st.questions]
           /\ unanswered_questions_remaining' = st.unanswered_remaining
           /\ reference_questions_remaining' = st.reference_remaining
    /\ pc' = "exact_matched"
    /\ UNCHANGED <<call, worksheet, reference_questionnaire, match_response, matches_read, verdict_of,
                   items_json, score_response, results_read, result_of, match_requests,
                   score_requests, combined_questionnaire_rows, output_written, exit_status,
                   raised_in>>

(***************************************************************************)
(* Stage 2: semantic matching                                              *)
(***************************************************************************)

\* main(), lines 226-238: an exception out of the pipeline ends the run with
\* sys.exit(1), before generate_combined_questionnaire.
Abort(stage) ==
    /\ pc' = "failed"
    /\ exit_status' = 1
    /\ raised_in' = stage

\* _match_questions_to_reference with json.loads outside the try: content that
\* does not parse raises out of the pipeline.
MatchRequest_UnparseableRaises ==
    /\ pc = "exact_matched"
    /\ match_requests' = match_requests + 1
    /\ \E kind \in ResponseKinds :
        /\ match_response' = kind
        /\ IF kind \in {"transport_error", "unparseable"}
           THEN Abort("match_request")
           ELSE pc' = "fill_best_matches" /\ UNCHANGED <<exit_status, raised_in>>
    /\ UNCHANGED <<call, worksheet, reference_questionnaire, unanswered_questionnaire,
                   unanswered_questions_remaining, reference_questions_remaining,
                   matches_read, verdict_of, items_json, score_response, results_read,
                   result_of, score_requests, combined_questionnaire_rows, output_written>>

\* _match_questions_to_reference, lines 280-319: the one request and the
\* parsing of its content.  A transport error is raised by _make_ai_request
\* outside the try; content that does not parse yields [].
MatchRequest ==
    /\ pc = "exact_matched"
    /\ match_requests' = match_requests + 1
    /\ \E kind \in ResponseKinds :
        /\ match_response' = kind
        /\ IF kind = "transport_error"
           THEN Abort("match_request")
           ELSE pc' = "fill_best_matches" /\ UNCHANGED <<exit_status, raised_in>>
    /\ UNCHANGED <<call, worksheet, reference_questionnaire, unanswered_questionnaire,
                   unanswered_questions_remaining, reference_questions_remaining,
                   matches_read, verdict_of, items_json, score_response, results_read,
                   result_of, score_requests, combined_questionnaire_rows, output_written>>

\* Whether the body of the loop of _fill_best_matches raises on an entry:
\* match["unmatched_question"] or match["match"] is missing, or the named
\* question is not a key of the unanswered store.
EntryRaises(questions, match) ==
    \/ match.unmatched_question = Missing
    \/ match.match.kind = "missing"
    \/ match.unmatched_question \notin DOMAIN questions

\* The loop body of _fill_best_matches without lines 525-528: the verdict sets
\* the link and leaves the score alone.
ApplyMatch_KeepsScore(questions, match) ==
    LET unmatched_question == match.unmatched_question
        best_match == IF match.match.kind # "null" THEN match.match.matched_question ELSE None
    IN  [questions EXCEPT ![unmatched_question].reference_question = best_match]

\* The loop body of _fill_best_matches doing nothing for "match": null,
\* instead of storing None and 0.
ApplyMatch_NullSkipped(questions, match) ==
    LET unmatched_question == match.unmatched_question
    IN  IF match.match.kind = "null" THEN questions
        ELSE [questions EXCEPT
                 ![unmatched_question].question_match_score = match.match.similarity,
                 ![unmatched_question].reference_question = match.match.matched_question]

\* The body of the loop of _fill_best_matches (lines 516-531) on an entry
\* that does not raise.
ApplyMatch(questions, match) ==
    LET unmatched_question == match.unmatched_question
        best_match == IF match.match.kind # "null" THEN match.match.matched_question ELSE None
        score == IF match.match.kind # "null" THEN match.match.similarity ELSE 0
    IN  [questions EXCEPT ![unmatched_question].question_match_score = score,
                          ![unmatched_question].reference_question = best_match]

\* _fill_best_matches with the scorer's batch collected before the loop over
\* best_matches: verdicts are still applied once the batch exists.
FillBestMatch_AfterCollecting ==
    /\ pc \in {"fill_best_matches", "score_request"}
    /\ match_response = "parsed"
    /\ matches_read < MaxMatches
    /\ \E match \in MatchEntries(reference_questionnaire, unanswered_questionnaire) :
        /\ matches_read' = matches_read + 1
        /\ IF EntryRaises(unanswered_questionnaire.questions, match)
           THEN /\ Abort("fill_best_matches")
                /\ UNCHANGED <<unanswered_questionnaire, verdict_of>>
           ELSE /\ unanswered_questionnaire' =
                       [unanswered_questionnaire EXCEPT !.questions = ApplyMatch(@, match)]
                /\ verdict_of' = [verdict_of EXCEPT ![match.unmatched_question] = match]
                /\ UNCHANGED <<pc, exit_status, raised_in>>
    /\ UNCHANGED <<call, worksheet, reference_questionnaire, unanswered_questions_remaining,
                   reference_questions_remaining, match_response, items_json,
                   score_response, results_read, result_of, match_requests, score_requests,
                   combined_questionnaire_rows, output_written>>

\* One iteration of the loop of _fill_best_matches over best_matches.
FillBestMatch ==
    /\ pc = "fill_best_matches"
    /\ match_response = "parsed"
    /\ matches_read < MaxMatches
    /\ \E match \in MatchEntries(reference_questionnaire, unanswered_questionnaire) :
        /\ matches_read' = matches_read + 1
        /\ IF EntryRaises(unanswered_questionnaire.questions, match)
           THEN /\ Abort("fill_best_matches")
                /\ UNCHANGED <<unanswered_questionnaire, verdict_of>>
           ELSE /\ unanswered_questionnaire' =
                       [unanswered_questionnaire EXCEPT !.questions = ApplyMatch(@, match)]
                /\ verdict_of' = [verdict_of EXCEPT ![match.unmatched_question] = match]
                /\ UNCHANGED <<pc, exit_status, raised_in>>
    /\ UNCHANGED <<call, worksheet, reference_questionnaire, unanswered_questions_remaining,
                   reference_questions_remaining, match_response, items_json,
                   score_response, results_read, result_of, match_requests, score_requests,
                   combined_questionnaire_rows, output_written>>

(***************************************************************************)
(* Stage 3: answer scoring                                                 *)
(***************************************************************************)

\* Whether a record takes part in answer matching (line 373).
IsCandidate(record) ==
    /\ record.reference_question # None
    /\ record.reference_question # EmptyText
    /\ HasMeaningfulContent(record.answer)

\* The loop body of _get_items_for_answer_matching scoring identical answers
\* as a percentage (100) instead of 1.
ItemStep_PercentScore(st, reference_questions, question) ==
    LET record == st.questions[question]
        current_answer == record.answer
        reference_question == record.reference_question
    IN  IF st.raised \/ ~IsCandidate(record) THEN st
        ELSE IF reference_question \notin DOMAIN reference_questions
        THEN [st EXCEPT !.raised = TRUE]
        ELSE LET reference_answer == reference_questions[reference_question].answer
             IN  IF Strip(Str(current_answer)) = Strip(Str(reference_answer))
                 THEN [st EXCEPT !.questions[question].answer_match_score = 100 * ScoreOne]
                 ELSE [st EXCEPT !.items = Append(@, [q |-> question,
                                                      a1 |-> current_answer,
                                                      a2 |-> reference_answer])]

\* The loop body of _get_items_for_answer_matching skipping a pair whose
\* reference answer is not meaningful (empty), instead of batching it.
ItemStep_SkipsEmptyReference(st, reference_questions, question) ==
    LET record == st.questions[question]
        current_answer == record.answer
        reference_question == record.reference_question
    IN  IF st.raised \/ ~IsCandidate(record) THEN st
        ELSE IF reference_question \notin DOMAIN reference_questions
        THEN [st EXCEPT !.raised = TRUE]
        ELSE LET reference_answer == reference_questions[reference_question].answer
             IN  IF Strip(Str(current_answer)) = Strip(Str(reference_answer))
                 THEN [st EXCEPT !.questions[question].answer_match_score = ScoreOne]
                 ELSE IF ~HasMeaningfulContent(reference_answer) THEN st
                 ELSE [st EXCEPT !.items = Append(@, [q |-> question,
                                                      a1 |-> current_answer,
                                                      a2 |-> reference_answer])]

\* One iteration of the loop of _get_items_for_answer_matching (lines 364-388).
\* st = [questions, items, raised].
ItemStep(st, reference_questions, question) ==
    LET record == st.questions[question]
        current_answer == record.answer
        reference_question == record.reference_question
    IN  IF st.raised \/ ~IsCandidate(record) THEN st
        ELSE IF reference_question \notin DOMAIN reference_questions
        THEN [st EXCEPT !.raised = TRUE]
        ELSE LET reference_answer == reference_questions[reference_question].answer
             IN  IF Strip(Str(current_answer)) = Strip(Str(reference_answer))
                 THEN [st EXCEPT !.questions[question].answer_match_score = ScoreOne]
                 ELSE [st EXCEPT !.items = Append(@, [q |-> question,
                                                      a1 |-> current_answer,
                                                      a2 |-> reference_answer])]

RECURSIVE ItemLoop(_, _, _, _)
ItemLoop(st, reference_questions, order, i) ==
    IF i > Len(order) THEN st
    ELSE ItemLoop(ItemStep(st, reference_questions, order[i]), reference_questions, order, i + 1)

\* Questionnaire_Filler._get_items_for_answer_matching
GetItemsForAnswerMatching(reference, unanswered) ==
    ItemLoop([questions |-> unanswered.questions, items |-> <<>>, raised |-> FALSE],
             reference.questions, unanswered.order, 1)

\* _fill_answer_matches_score without the early return of lines 406-408: the
\* request is issued for an empty batch too.
CollectItems_AlwaysRequests ==
    /\ pc = "fill_best_matches"
    /\ LET st == GetItemsForAnswerMatching(reference_questionnaire, unanswered_questionnaire)
       IN  /\ unanswered_questionnaire' = [unanswered_questionnaire EXCEPT !.questions = st.questions]
           /\ items_json' = st.items
           /\ IF st.raised
              THEN Abort("get_items")
              ELSE /\ pc' = "score_request"
                   /\ UNCHANGED <<exit_status, raised_in>>
    /\ UNCHANGED <<call, worksheet, reference_questionnaire, unanswered_questions_remaining,
                   reference_questions_remaining, match_response, matches_read, verdict_of,
                   score_response, results_read, result_of, match_requests, score_requests,
                   combined_questionnaire_rows, output_written>>

\* The end of the loop of _fill_best_matches and the start of
\* _fill_answer_matches_score (lines 534, 403-408): the batch is collected,
\* and an empty batch returns without a request.
CollectItems ==
    /\ pc = "fill_best_matches"
    /\ LET st == GetItemsForAnswerMatching(reference_questionnaire, unanswered_questionnaire)
       IN  /\ unanswered_questionnaire' = [unanswered_questionnaire EXCEPT !.questions = st.questions]
           /\ items_json' = st.items
           /\ IF st.raised
              THEN Abort("get_items")
              ELSE /\ pc' = IF st.items = <<>> THEN "scored" ELSE "score_request"
                   /\ UNCHANGED <<exit_status, raised_in>>
    /\ UNCHANGED <<call, worksheet, reference_questionnaire, unanswered_questions_remaining,
                   reference_questions_remaining, match_response, matches_read, verdict_of,
                   score_response, results_read, result_of, match_requests, score_requests,
                   combined_questionnaire_rows, output_written>>

\* _fill_answer_matches_score with the request inside the try: a transport
\* error is caught and the stage returns {}.
ScoreRequest_SwallowsTransportError ==
    /\ pc = "score_request"
    /\ score_requests' = score_requests + 1
    /\ \E kind \in ResponseKinds :
        /\ score_response' = kind
        /\ CASE kind = "transport_error" -> pc' = "scored" /\ UNCHANGED <<exit_status, raised_in>>
             [] kind = "unparseable" -> pc' = "scored" /\ UNCHANGED <<exit_status, raised_in>>
             [] kind = "parsed" -> pc' = "fill_scores" /\ UNCHANGED <<exit_status, raised_in>>
    /\ UNCHANGED <<call, worksheet, reference_questionnaire, unanswered_questionnaire,
                   unanswered_questions_remaining, reference_questions_remaining,
                   match_response, matches_read, verdict_of, items_json, results_read,
                   result_of, match_requests, combined_questionnaire_rows, output_written>>

\* _fill_answer_matches_score, lines 448-470: the one request and the parsing
\* of its content.
ScoreRequest ==
    /\ pc = "score_request"
    /\ score_requests' = score_requests + 1
    /\ \E kind \in ResponseKinds :
        /\ score_response' = kind
        /\ CASE kind = "transport_error" -> Abort("score_request")
             [] kind = "unparseable" -> pc' = "scored" /\ UNCHANGED <<exit_status, raised_in>>
             [] kind = "parsed" -> pc' = "fill_scores" /\ UNCHANGED <<exit_status, raised_in>>
    /\ UNCHANGED <<call, worksheet, reference_questionnaire, unanswered_questionnaire,
                   unanswered_questions_remaining, reference_questions_remaining,
                   match_response, matches_read, verdict_of, items_json, results_read,
                   result_of, match_requests, combined_questionnaire_rows, output_written>>

\* The loop body over results leaving alone a record whose answers were
\* scored locally as identical.
ApplyResult_KeepsLocalScore(questions, result) ==
    LET question == result.q
        score == IF result.kind = "no_s" THEN 0 ELSE result.s
    IN  IF question \in DOMAIN questions /\ questions[question].answer_match_score # ScoreOne
        THEN [questions EXCEPT ![question].answer_match_score = score]
        ELSE questions

\* The loop body over results creating a record for a question the store
\* does not have.
ApplyResult_InsertsUnknown(questions, result) ==
    LET question == result.q
        score == IF result.kind = "no_s" THEN 0 ELSE result.s
    IN  IF question \in DOMAIN questions
        THEN [questions EXCEPT ![question].answer_match_score = score]
        ELSE (question :> [NewQuestion(question, 0, FALSE) EXCEPT !.answer_match_score = score])
             @@ questions

\* The body of the loop over results (lines 476-482) on an entry that is an
\* object: result.get('q'), result.get('s', 0), and the score is set when the
\* question is a key of the unanswered store.
ApplyResult(questions, result) ==
    LET question == result.q
        score == IF result.kind = "no_s" THEN 0 ELSE result.s
    IN  IF question \in DOMAIN questions
        THEN [questions EXCEPT ![question].answer_match_score = score]
        ELSE questions

\* One iteration of the loop over results; an entry that is not an object
\* raises inside the try and ends the stage with the earlier entries applied.
FillAnswerScore ==
    /\ pc = "fill_scores"
    /\ results_read < MaxResults
    /\ \E result \in ResultEntries(unanswered_questionnaire) :
        /\ results_read' = results_read + 1
        /\ IF result.kind = "invalid"
           THEN pc' = "scored" /\ UNCHANGED <<unanswered_questionnaire, result_of>>
           ELSE /\ unanswered_questionnaire' =
                       [unanswered_questionnaire EXCEPT !.questions = ApplyResult(@, result)]
                /\ result_of' =
                       IF result.q \in DOMAIN result_of
                       THEN [result_of EXCEPT ![result.q] =
                                [kind |-> result.kind, q |-> result.q, s |-> result.s,
                                 returned |-> IF result.kind = "object"
                                              THEN @.returned \cup {result.s}
                                              ELSE @.returned]]
                       ELSE result_of
                /\ UNCHANGED pc
    /\ UNCHANGED <<call, worksheet, reference_questionnaire, unanswered_questions_remaining,
                   reference_questions_remaining, match_response, matches_read, verdict_of,
                   items_json, score_response, match_requests, score_requests,
                   combined_questionnaire_rows, output_written, exit_status, raised_in>>

\* The end of the loop over results.
EndResults ==
    /\ pc = "fill_scores"
    /\ pc' = "scored"
    /\ UNCHANGED <<call, worksheet, reference_questionnaire, unanswered_questionnaire,
                   unanswered_questions_remaining, reference_questions_remaining,
                   match_response, matches_read, verdict_of, items_json, score_response,
                   results_read, result_of, match_requests, score_requests,
                   combined_questionnaire_rows, output_written, exit_status, raised_in>>

(***************************************************************************)
(* Stage 4: assembly                                                       *)
(***************************************************************************)

\* The body of the loop of generate_combined_questionnaire (lines 563-592).
CombinedRow(reference_questions, record) ==
    LET last_question == record.reference_question
        found == last_question # None /\ last_question \in DOMAIN reference_questions
    IN  [Current_Question |-> record.question,
         Matched_Question |-> last_question,
         Matched_Question_Row |-> IF found THEN reference_questions[last_question].question_id + 1 ELSE -1,
         Question_Match_Score |-> record.question_match_score,
         Current_Answer |-> record.answer,
         Matched_Answer |-> IF found THEN reference_questions[last_question].answer ELSE EmptyText,
         Answer_Match_Score |-> record.answer_match_score]

\* generate_combined_questionnaire emitting rows only for the records whose
\* link is a key of the reference store.
CombinedRows_SkipsUnmatched(reference, unanswered) ==
    LET Matched(question) ==
            unanswered.questions[question].reference_question \in DOMAIN reference.questions
        kept == SelectSeq(unanswered.order, Matched)
    IN  [i \in 1..Len(kept) |-> CombinedRow(reference.questions, unanswered.questions[kept[i]])]

\* The rows of generate_combined_questionnaire, in store order.
CombinedRows(reference, unanswered) ==
    [i \in 1..Len(unanswered.order) |->
        CombinedRow(reference.questions, unanswered.questions[unanswered.order[i]])]

\* The pink fill of lines 639 and 646 with <= in place of <.
IsFlagged_AtOrBelowThreshold(value) == value <= AccuracyThreshold

\* Whether a score cell gets the pink fill (lines 639 and 646): its value is a
\* number below accuracy_threshold.
IsFlagged(value) == value < AccuracyThreshold

\* The fill of the two score cells of every row of a styled table (lines
\* 635-647); a table saved as CSV has no styling (line 650).
Fill(rows, styled) ==
    [i \in 1..Len(rows) |->
        [Question_Match_Score |-> styled /\ IsFlagged(rows[i].Question_Match_Score),
         Answer_Match_Score |-> styled /\ IsFlagged(rows[i].Answer_Match_Score)]]

\* main(), lines 220-224: generate_combined_questionnaire and the normal end.
\* The table is styled when the output file name ends in .xlsx.
GenerateCombinedQuestionnaire ==
    /\ pc = "scored"
    /\ combined_questionnaire_rows' = CombinedRows(reference_questionnaire, unanswered_questionnaire)
    /\ \E styled \in BOOLEAN :
           worksheet' = [styled |-> styled,
                         values |-> combined_questionnaire_rows',
                         fill |-> Fill(combined_questionnaire_rows', styled)]
    /\ output_written' = TRUE
    /\ pc' = "done"
    /\ exit_status' = 0
    /\ UNCHANGED <<call, reference_questionnaire, unanswered_questionnaire,
                   unanswered_questions_remaining, reference_questions_remaining,
                   match_response, matches_read, verdict_of, items_json, score_response,
                   results_read, result_of, match_requests, score_requests, raised_in>>

Next ==
    \/ ExactMatch
    \/ MatchRequest
    \/ FillBestMatch
    \/ CollectItems
    \/ ScoreRequest
    \/ FillAnswerScore
    \/ EndResults
    \/ GenerateCombinedQuestionnaire

Spec == Init /\ [][Next]_vars

\* The exact matcher alone, on every pair of tables within the row bounds.
SpecExact == InitExact /\ [][ExactMatch]_vars

(***************************************************************************)
(* Loading: main() and Questionnaire_Filler.__init__                       *)
(***************************************************************************)

FileNotFoundError == <<"FileNotFoundError">>
ValueError == <<"ValueError">>
KeyError == <<"KeyError">>

\* What a path given to the run can name: no file, a file that is neither
\* .csv nor .xlsx, one the reader fails on, a table without the question
\* column or without the answer column, or a table with both.
FileKinds == {"ok", "missing", "unsupported", "unreadable", "no_question_col", "no_answer_col"}

\* Questionnaire._read_file: the exception it raises, or None.
ReadFileRaises(file) ==
    IF file.kind = "missing" THEN FileNotFoundError
    ELSE IF file.kind \in {"unsupported", "unreadable"} THEN ValueError
    ELSE None

\* The column checks at the head of _build_questions: the exception, or None.
BuildQuestionsRaises(file) ==
    IF file.kind = "no_question_col" THEN KeyError
    ELSE IF file.kind = "no_answer_col" THEN KeyError
    ELSE None

\* Questionnaire.__init__ without the check of the answer column.
QuestionnaireRaises_AnswerColumnUnchecked(file) ==
    IF ReadFileRaises(file) # None THEN ReadFileRaises(file)
    ELSE IF file.kind = "no_question_col" THEN KeyError
    ELSE None

\* Questionnaire.__init__: _read_file, then _build_questions.
QuestionnaireRaises(file) ==
    IF ReadFileRaises(file) # None THEN ReadFileRaises(file)
    ELSE BuildQuestionsRaises(file)

\* The runs of the loading stage: started from the command line or by
\* constructing Questionnaire_Filler directly, on two paths, with or without
\* the collaborator's address and key in the environment.
LoadArgs ==
    [entry : {"main", "Questionnaire_Filler"},
     reference_file : [kind : FileKinds, rows : {<<[question |-> <<"A">>, answer |-> <<"Y">>]>>}],
     unanswered_file : [kind : FileKinds,
                        rows : {<<[question |-> <<"A">>, answer |-> <<"N">>]>>,
                                <<[question |-> <<"B">>, answer |-> <<"N">>]>>}],
     credentials : BOOLEAN]

\* The state at the start of main(), or of Questionnaire_Filler.__init__ when
\* it is called directly: nothing has been read.
InitLoad ==
    /\ \E arg \in LoadArgs :
        /\ call = Called(arg.entry, arg)
        /\ pc = IF arg.entry = "main" THEN "main" ELSE "load_reference"
    /\ reference_questionnaire = BuildQuestions(<<>>, TRUE)
    /\ unanswered_questionnaire = BuildQuestions(<<>>, FALSE)
    /\ unanswered_questions_remaining = {}
    /\ reference_questions_remaining = {}
    /\ match_response = "none"
    /\ matches_read = 0
    /\ verdict_of = <<>>
    /\ items_json = <<>>
    /\ score_response = "none"
    /\ results_read = 0
    /\ result_of = <<>>
    /\ match_requests = 0
    /\ score_requests = 0
    /\ combined_questionnaire_rows = <<>>
    /\ output_written = FALSE
    /\ exit_status = -1
    /\ raised_in = "none"
    /\ worksheet = NoWorksheet

\* An exception leaves the stage: main() catches it and exits with status 1;
\* a direct caller of the constructor gets the exception.
Raise(stage, exception) ==
    /\ pc' = "failed"
    /\ raised_in' = stage
    /\ exit_status' = IF call.op = "main" THEN 1 ELSE exit_status
    /\ call' = [call EXCEPT !.returned = TRUE, !.result = exception]

\* main(), lines 163-170: a path that names no file ends the run with status 1.
MainChecksFiles ==
    /\ pc = "main"
    /\ IF call.arg.reference_file.kind = "missing" \/ call.arg.unanswered_file.kind = "missing"
       THEN /\ pc' = "failed"
            /\ raised_in' = "main"
            /\ exit_status' = 1
            /\ call' = [call EXCEPT !.returned = TRUE]
       ELSE /\ pc' = "load_reference"
            /\ UNCHANGED <<raised_in, exit_status, call>>
    /\ UNCHANGED <<worksheet, reference_questionnaire, unanswered_questionnaire,
                   unanswered_questions_remaining, reference_questions_remaining,
                   match_response, matches_read, verdict_of,
                   items_json, score_response, results_read, result_of, match_requests,
                   score_requests, combined_questionnaire_rows, output_written>>

\* Questionnaire_Filler.__init__, lines 74-78: the reference store is read and built.
LoadReference ==
    /\ pc = "load_reference"
    /\ LET file == call.arg.reference_file
       IN  IF QuestionnaireRaises(file) # None
           THEN /\ Raise("load_reference", QuestionnaireRaises(file))
                /\ UNCHANGED reference_questionnaire
           ELSE /\ reference_questionnaire' = BuildQuestions(file.rows, TRUE)
                /\ pc' = "load_unanswered"
                /\ UNCHANGED <<raised_in, exit_status, call>>
    /\ UNCHANGED <<worksheet, unanswered_questionnaire,
                   unanswered_questions_remaining, reference_questions_remaining,
                   match_response, matches_read, verdict_of,
                   items_json, score_response, results_read, result_of, match_requests,
                   score_requests, combined_questionnaire_rows, output_written>>

\* Questionnaire_Filler.__init__, lines 81-85: the unanswered store is read and built.
LoadUnanswered ==
    /\ pc = "load_unanswered"
    /\ LET file == call.arg.unanswered_file
       IN  IF QuestionnaireRaises(file) # None
           THEN /\ Raise("load_unanswered", QuestionnaireRaises(file))
                /\ UNCHANGED <<unanswered_questionnaire, verdict_of, result_of>>
           ELSE /\ unanswered_questionnaire' = BuildQuestions(file.rows, FALSE)
                /\ verdict_of' = [q \in DOMAIN unanswered_questionnaire'.questions |-> NoVerdict]
                /\ result_of' = [q \in DOMAIN unanswered_questionnaire'.questions |-> NoResult]
                /\ pc' = "build_ai_client"
                /\ UNCHANGED <<raised_in, exit_status, call>>
    /\ UNCHANGED <<worksheet, reference_questionnaire,
                   unanswered_questions_remaining, reference_questions_remaining,
                   match_response, matches_read,
                   items_json, score_response, results_read, match_requests,
                   score_requests, combined_questionnaire_rows, output_written>>

\* Questionnaire_Filler.__init__, lines 88-91: the client is built, or a
\* ValueError is raised when the address or the key is not set.
BuildAIClient ==
    /\ pc = "build_ai_client"
    /\ IF call.arg.credentials
       THEN /\ pc' = "start"
            /\ UNCHANGED <<raised_in, exit_status, call>>
       ELSE Raise("build_ai_client", ValueError)
    /\ UNCHANGED <<worksheet, reference_questionnaire, unanswered_questionnaire,
                   unanswered_questions_remaining, reference_questions_remaining,
                   match_response, matches_read, verdict_of,
                   items_json, score_response, results_read, result_of, match_requests,
                   score_requests, combined_questionnaire_rows, output_written>>

\* A whole run: loading, then the pipeline.
NextLoad ==
    \/ MainChecksFiles
    \/ LoadReference
    \/ LoadUnanswered
    \/ BuildAIClient
    \/ Next

SpecLoad == InitLoad /\ [][NextLoad]_vars

(***************************************************************************)
(* Helpers called on their own                                             *)
(***************************************************************************)

MaxTextLen == 5

\* All texts of at most n characters over a set of characters.
RECURSIVE TextsOver(_, _)
TextsOver(chars, n) ==
    IF n = 0 THEN {<<>>}
    ELSE LET shorter == TextsOver(chars, n - 1)
         IN  shorter \cup {Append(t, c) : t \in {s \in shorter : Len(s) = n - 1}, c \in chars}

\* Values _has_meaningful_content is called on: None, a NaN, a number, a
\* boolean, every short text of blanks, letters of "nan", a digit and a
\* punctuation mark, and the other null words, bare and padded.
MeaningfulArgs ==
    {None, NaN, Zero, TrueValue}
    \cup TextsOver({" ", "n", "a", "N", "!", "1"}, MaxTextLen)
    \cup {<<"n", "o", "n", "e">>, <<"N", "o", "n", "e">>, <<" ", "n", "o", "n", "e">>,
          <<"n", "u", "l", "l">>, <<"N", "U", "L", "L">>, <<"TAB", "n", "u", "l", "l", " ">>}

InitMeaningful ==
    /\ Constructed(<<>>, <<>>)
    /\ \E v \in MeaningfulArgs : call = Called("_has_meaningful_content", v)

\* The pipeline's variables, which a helper called on its own leaves alone.
pipeline_vars ==
    <<reference_questionnaire, unanswered_questionnaire, pc,
      unanswered_questions_remaining, reference_questions_remaining,
      match_response, matches_read, verdict_of, items_json, score_response,
      results_read, result_of, match_requests, score_requests,
      combined_questionnaire_rows, output_written, exit_status, raised_in, worksheet>>

\* Questionnaire_Filler._has_meaningful_content returns.
HasMeaningfulContentReturns ==
    /\ call.op = "_has_meaningful_content"
    /\ ~call.returned
    /\ call' = [call EXCEPT !.returned = TRUE, !.result = HasMeaningfulContent(call.arg)]
    /\ UNCHANGED pipeline_vars

\* _has_meaningful_content alone, on every value of MeaningfulArgs.
SpecMeaningful == InitMeaningful /\ [][HasMeaningfulContentReturns]_vars

\* Raw question texts _clean_question is called on: every short text of
\* blanks, tabs, no-break spaces, letters in both cases, the fullwidth letter
\* and the spacing diaeresis.
CleanQuestionArgs ==
    TextsOver({" ", "TAB", "NBSP", "A", "a", "FW_A", "DIAERESIS"}, MaxTextLen)

\* _clean_question is called on a raw text; call.result collects what the
\* successive applications return.
InitClean ==
    /\ Constructed(<<>>, <<>>)
    /\ \E x \in CleanQuestionArgs :
           call = [op |-> "_clean_question", arg |-> x, returned |-> FALSE, result |-> <<>>]

\* Questionnaire._clean_question returns.
CleanQuestionReturns ==
    /\ call.op = "_clean_question"
    /\ ~call.returned
    /\ call' = [call EXCEPT !.returned = TRUE, !.result = <<CleanQuestion(call.arg)>>]
    /\ UNCHANGED pipeline_vars

\* Questionnaire._clean_question is applied to the text it returned.
CleanQuestionAgain ==
    /\ call.op = "_clean_question"
    /\ call.returned
    /\ Len(call.result) = 1
    /\ call' = [call EXCEPT !.result = Append(@, CleanQuestion(call.result[1]))]
    /\ UNCHANGED pipeline_vars

\* _clean_question alone, applied once and then again to its own result.
SpecClean == InitClean /\ [][CleanQuestionReturns \/ CleanQuestionAgain]_vars

\* Source tables _build_questions is called on: rows whose question is one
\* question in plain, padded, compatibility-equivalent or lowercase form, or
\* another question, and whose answer is a text, a NaN cell or a blank.
BuildQuestionsArgs ==
    TablesOver({[question |-> q, answer |-> a] :
                    q \in {<<"A">>, <<"TAB", "A", " ">>, <<"FW_A">>, <<"a">>, <<"B">>},
                    a \in {<<"Y">>, <<"N">>, NaN, <<" ">>}},
               MaxUnansweredRows)

InitBuild ==
    /\ Constructed(<<>>, <<>>)
    /\ \E rows \in BuildQuestionsArgs, is_reference \in BOOLEAN :
           call = Called("_build_questions", [rows |-> rows, is_reference |-> is_reference])

\* Questionnaire._build_questions returns: call.result is the store.
BuildQuestionsReturns ==
    /\ call.op = "_build_questions"
    /\ ~call.returned
    /\ call' = [call EXCEPT !.returned = TRUE,
                            !.result = BuildQuestions(call.arg.rows, call.arg.is_reference)]
    /\ UNCHANGED pipeline_vars

\* _build_questions alone, on every table of BuildQuestionsArgs.
SpecBuild == InitBuild /\ [][BuildQuestionsReturns]_vars

(***************************************************************************)
(* Properties                                                              *)
(***************************************************************************)

UnansweredQuestions == unanswered_questionnaire.questions
ReferenceQuestions == reference_questionnaire.questions

\* The unanswered keys the exact matcher linked, by direct lookup or by the
\* static table: those it took out of the remaining set.
ExactMatched == DOMAIN UnansweredQuestions \ unanswered_questions_remaining

\* A matched_reference_text that is absent: None or the empty string.
Absent(text) == text = None \/ text = EmptyText

\* The row of the assembled table that belongs to an unanswered key.
RowOf(question) ==
    combined_questionnaire_rows[
        CHOOSE i \in 1..Len(unanswered_questionnaire.order) :
            unanswered_questionnaire.order[i] = question]

\* C1 as stated: right after match_exact, every unanswered record whose key
\* is also a key of the reference store is linked to that same key with
\* score 1.
C1_Original ==
    pc = "exact_matched" =>
        \A q \in DOMAIN UnansweredQuestions \cap DOMAIN ReferenceQuestions :
            /\ UnansweredQuestions[q].reference_question = q
            /\ UnansweredQuestions[q].question_match_score = ScoreOne

\* C1 amended: right after match_exact, every unanswered record whose key is
\* also a key of the reference store has score 1 and is linked to that same
\* key, unless the key is in the static table, in which case it is linked to
\* the table's fixed reference key.
C1_ExactMatchLinksSharedKeys ==
    pc = "exact_matched" =>
        \A q \in DOMAIN UnansweredQuestions \cap DOMAIN ReferenceQuestions :
            /\ UnansweredQuestions[q].question_match_score = ScoreOne
            /\ UnansweredQuestions[q].reference_question =
                   IF q \in DOMAIN StaticComplianceMatches
                   THEN StaticComplianceMatches[q] ELSE q

\* A plain shared key linked to itself, and the static question, present in
\* both stores, linked to the table's key.
C1_Witness ==
    /\ pc = "exact_matched"
    /\ \E q \in DOMAIN UnansweredQuestions \cap DOMAIN ReferenceQuestions :
        /\ q \notin DOMAIN StaticComplianceMatches
        /\ UnansweredQuestions[q].reference_question = q
        /\ UnansweredQuestions[q].question_match_score = ScoreOne
    /\ StaticQuestion \in DOMAIN UnansweredQuestions \cap DOMAIN ReferenceQuestions
    /\ UnansweredQuestions[StaticQuestion].reference_question = Classification

\* C2: match_exact does not fail, the remaining set it returns is exactly the
\* unanswered keys that are neither a reference key nor a key of the static
\* table, and every unanswered key is either remaining or matched with
\* score 1, never both and never neither.
C2_RemainingIsExactlyTheUnmatched ==
    /\ pc = "start" => ENABLED ExactMatch
    /\ pc = "exact_matched" =>
        /\ exit_status = -1 /\ raised_in = "none"
        /\ unanswered_questions_remaining =
               {q \in DOMAIN UnansweredQuestions :
                   q \notin DOMAIN ReferenceQuestions /\ q \notin DOMAIN StaticComplianceMatches}
        /\ \A q \in DOMAIN UnansweredQuestions :
               (q \in unanswered_questions_remaining)
                   # (UnansweredQuestions[q].question_match_score = ScoreOne)

\* Both kinds of key in one store: one left remaining, one matched.
C2_Witness ==
    /\ pc = "exact_matched"
    /\ unanswered_questions_remaining # {}
    /\ \E q \in ExactMatched : UnansweredQuestions[q].question_match_score = ScoreOne
    /\ \E q \in unanswered_questions_remaining :
           UnansweredQuestions[q].question_match_score = 0

\* C3 as stated: at the end of the pipeline a record has score 1 exactly when
\* the exact matcher (direct lookup or static table) linked it.
C3_Original ==
    pc = "done" =>
        \A q \in DOMAIN UnansweredQuestions :
            (UnansweredQuestions[q].question_match_score = ScoreOne) <=> (q \in ExactMatched)

\* C3 amended: at the end of the pipeline a record has score 1 exactly when
\* either the exact matcher linked it and no semantic verdict was applied to
\* it, or the last semantic verdict applied to it carries a match with
\* similarity 1.
C3_ScoreOneIffExactOrSimilarityOne ==
    pc = "done" =>
        \A q \in DOMAIN UnansweredQuestions :
            (UnansweredQuestions[q].question_match_score = ScoreOne)
                <=> \/ verdict_of[q] = NoVerdict /\ q \in ExactMatched
                    \/ /\ verdict_of[q].match.kind = "object"
                       /\ verdict_of[q].match.similarity = ScoreOne

\* A finished run with an exact-matched record no verdict touched, and a
\* semantically matched record with a score below 1.
C3_Witness ==
    /\ pc = "done"
    /\ \E q \in ExactMatched :
           verdict_of[q] = NoVerdict /\ UnansweredQuestions[q].question_match_score = ScoreOne
    /\ \E q \in unanswered_questions_remaining :
        /\ verdict_of[q].match.kind = "object"
        /\ UnansweredQuestions[q].question_match_score = 50

\* C4: at the end of the pipeline, every unanswered record that has no
\* reference match (not linked by the exact matcher or the static table, and
\* given no match by the semantic collaborator) has question_match_score 0
\* and an absent matched_reference_text.
C4_UnmatchedHasScoreZeroAndNoLink ==
    pc = "done" =>
        \A q \in unanswered_questions_remaining :
            verdict_of[q].match.kind # "object" =>
                /\ UnansweredQuestions[q].question_match_score = 0
                /\ Absent(UnansweredQuestions[q].reference_question)

\* A finished run with a remaining record the collaborator gave a null match
\* and a remaining record it did not mention.
C4_Witness ==
    /\ pc = "done"
    /\ \E q \in unanswered_questions_remaining :
        /\ verdict_of[q].match.kind = "null"
        /\ UnansweredQuestions[q].reference_question = None
    /\ exit_status = 0

C6_NoMatchDecisionTrusted ==
    pc = "done" =>
        \A q \in unanswered_questions_remaining :
            (verdict_of[q] # NoVerdict /\ verdict_of[q].no_match) =>
                /\ Absent(RowOf(q).Matched_Question)
                /\ RowOf(q).Question_Match_Score = 0
                /\ RowOf(q).Matched_Question_Row = -1

\* The exact matcher's link of a key it matched.
ExactLink(q) ==
    IF q \in DOMAIN StaticComplianceMatches THEN StaticComplianceMatches[q] ELSE q

\* C7: if the semantic-matching response does not parse, the stage yields no
\* verdict and changes no record (remaining records stay unmatched with
\* score 0, exact-matched records keep link and score 1), the request is not
\* retried, and the run goes on to answer scoring instead of aborting: it
\* can only be ended by the scoring stage.
C7_UnparseableMatchResponseIsEmpty ==
    match_response = "unparseable" =>
        /\ matches_read = 0
        /\ match_requests = 1
        /\ \A q \in DOMAIN UnansweredQuestions : verdict_of[q] = NoVerdict
        /\ \A q \in unanswered_questions_remaining :
            /\ UnansweredQuestions[q].question_match_score = 0
            /\ UnansweredQuestions[q].reference_question = EmptyText
        /\ \A q \in ExactMatched :
            /\ UnansweredQuestions[q].question_match_score = ScoreOne
            /\ UnansweredQuestions[q].reference_question = ExactLink(q)
        /\ raised_in \in {"none", "get_items", "score_request"}
        /\ pc = "fill_best_matches" => (exit_status = -1 /\ ENABLED CollectItems /\ ~ENABLED FillBestMatch)

\* A run whose matching response did not parse and that wrote its table, with
\* a remaining record and an exact-matched record in the store.
C7_Witness ==
    /\ match_response = "unparseable"
    /\ pc = "done" /\ output_written
    /\ unanswered_questions_remaining # {}
    /\ ExactMatched # {}

\* C8 as stated: a matching response that parses but violates the schema (an
\* entry without unmatched_question or match, or naming a question that is
\* not in the unanswered store) does not end the run.
C8_SchemaViolationNonFatal ==
    raised_in # "fill_best_matches"

\* C9: a transport failure of either request is not swallowed: the run ends
\* with a non-zero status, the request is not reissued, no later stage runs
\* and no table is written.
C9_TransportFailureIsFatal ==
    /\ match_requests <= 1 /\ score_requests <= 1
    /\ match_response = "transport_error" =>
        /\ pc = "failed" /\ exit_status = 1 /\ raised_in = "match_request"
        /\ match_requests = 1 /\ score_requests = 0
        /\ matches_read = 0 /\ items_json = <<>> /\ score_response = "none"
        /\ combined_questionnaire_rows = <<>> /\ ~output_written
        /\ ~ENABLED Next
    /\ score_response = "transport_error" =>
        /\ pc = "failed" /\ exit_status = 1 /\ raised_in = "score_request"
        /\ match_requests = 1 /\ score_requests = 1
        /\ results_read = 0
        /\ combined_questionnaire_rows = <<>> /\ ~output_written
        /\ ~ENABLED Next

\* The scoring request failed in transport after a parsed matching response.
C9_Witness ==
    /\ score_response = "transport_error"
    /\ match_response = "parsed"
    /\ pc = "failed"

\* C10 as stated: every run that completes has issued exactly one matching
\* request and exactly one scoring request.
C10_Original ==
    pc = "done" => (match_requests = 1 /\ score_requests = 1)

\* C10 amended: every run that completes has issued exactly one matching
\* request, also when remaining_unanswered is empty, and exactly one scoring
\* request when the batch of divergent answer pairs is non-empty, none when
\* it is empty.
C10_OneMatchRequestAndScoreRequestIffBatch ==
    pc = "done" =>
        /\ match_requests = 1
        /\ score_requests = IF items_json = <<>> THEN 0 ELSE 1

\* A completed run with nothing left for semantic matching and no divergent
\* pair: one matching request, no scoring request.
C10_Witness ==
    /\ pc = "done"
    /\ DOMAIN UnansweredQuestions # {}
    /\ unanswered_questions_remaining = {}
    /\ items_json = <<>>
    /\ match_requests = 1
    /\ score_requests = 0

\* Whether a record's answer equals the answer of the reference record it is
\* linked to, after trimming (the comparison of line 379).
IdenticalAnswers(q) ==
    LET record == UnansweredQuestions[q]
    IN  /\ IsCandidate(record)
        /\ record.reference_question \in DOMAIN ReferenceQuestions
        /\ Strip(Str(record.answer)) =
               Strip(Str(ReferenceQuestions[record.reference_question].answer))

\* The questions of the scoring batch.
BatchQuestions == {items_json[i].q : i \in 1..Len(items_json)}

\* C11 as stated: at the end of the pipeline, every unanswered record with a
\* reference match and a meaningful answer equal to the reference answer after
\* trimming is not in the scoring batch and has answer_match_score exactly 1,
\* whatever the scoring collaborator returned.
C11_IdenticalAnswersScoreOne ==
    pc = "done" =>
        \A q \in DOMAIN UnansweredQuestions :
            IdenticalAnswers(q) =>
                /\ q \notin BatchQuestions
                /\ UnansweredQuestions[q].answer_match_score = ScoreOne

\* C12 as stated: at the end of the pipeline, every unanswered record whose
\* answer_match_score is not the default 0 has a reference match and a
\* meaningful current answer, whatever the scoring collaborator returned.
C12_AnswerScoreOnlyWithMatchAndAnswer ==
    pc = "done" =>
        \A q \in DOMAIN UnansweredQuestions :
            UnansweredQuestions[q].answer_match_score # 0 =>
                /\ ~Absent(UnansweredQuestions[q].reference_question)
                /\ HasMeaningfulContent(UnansweredQuestions[q].answer)

\* The states in which _get_items_for_answer_matching has returned its batch.
Collected ==
    \/ pc \in {"score_request", "fill_scores", "scored", "done"}
    \/ raised_in = "score_request"

\* The answer of the reference record an unanswered record is linked to.
MatchedAnswer(q) == ReferenceQuestions[UnansweredQuestions[q].reference_question].answer

\* C13: once the scoring batch is built, an unanswered record is in it exactly
\* when it has a non-null, non-empty reference match, a meaningful current
\* answer, and a current answer that differs from the matched reference
\* answer after trimming; it is then in it once, with a1 the current answer
\* and a2 the reference answer, whatever the reference answer is.
C13_BatchIsTheDivergentCandidates ==
    Collected =>
        /\ \A q \in DOMAIN UnansweredQuestions :
               (q \in BatchQuestions)
                   <=> /\ ~Absent(UnansweredQuestions[q].reference_question)
                       /\ HasMeaningfulContent(UnansweredQuestions[q].answer)
                       /\ Strip(Str(UnansweredQuestions[q].answer)) # Strip(Str(MatchedAnswer(q)))
        /\ \A i, j \in 1..Len(items_json) : items_json[i].q = items_json[j].q => i = j
        /\ \A i \in 1..Len(items_json) :
            /\ items_json[i].q \in DOMAIN UnansweredQuestions
            /\ items_json[i].a1 = UnansweredQuestions[items_json[i].q].answer
            /\ items_json[i].a2 = MatchedAnswer(items_json[i].q)

\* A batch with a pair whose reference answer is empty, built from a store
\* that also holds a pair of identical answers, left out of the batch.
C13_Witness ==
    /\ pc = "score_request"
    /\ \E i \in 1..Len(items_json) : items_json[i].a2 = EmptyText
    /\ \E q \in DOMAIN UnansweredQuestions : IdenticalAnswers(q) /\ q \notin BatchQuestions

\* The words the claim counts as textual nulls.
NullWords == {<<"n", "a", "n">>, <<"n", "o", "n", "e">>, <<"n", "u", "l", "l">>}

\* C14 as stated: has_meaningful_content(v) is true exactly when v, converted
\* to text and then trimmed, is non-empty, is not (case-insensitively) one of
\* nan / none / null, and contains an alphanumeric character; so a null word
\* padded with whitespace is not meaningful.
C14_MeaningfulIffTrimmedTextIsNotNull ==
    (call.op = "_has_meaningful_content" /\ call.returned) =>
        LET trimmed == Strip(Str(call.arg))
        IN  call.result <=> /\ trimmed # <<>>
                            /\ Lower(trimmed) \notin NullWords
                            /\ \E i \in 1..Len(trimmed) : trimmed[i] \in AlnumChars

\* A step in which the loop of _fill_best_matches raises on an entry.
MatchEntryFails == pc = "fill_best_matches" /\ raised_in' = "fill_best_matches"

\* A step in which the loop over results fails on an entry.
ResultEntryFails == pc = "fill_scores" /\ pc' = "scored" /\ results_read' = results_read + 1

\* C15 as stated: when processing a stage's response fails on an entry, no
\* entry of that response has been applied: after a failed matching response
\* every record has the link and score the exact matcher left it with, and
\* after a failed scoring response every record has the answer_match_score it
\* had when the request was sent (1 for identical answers, else 0).
C15_StagesAreAllOrNothing ==
    [][/\ MatchEntryFails =>
            \A q \in DOMAIN UnansweredQuestions :
                LET record == unanswered_questionnaire'.questions[q]
                IN  IF q \in ExactMatched
                    THEN /\ record.reference_question = ExactLink(q)
                         /\ record.question_match_score = ScoreOne
                    ELSE /\ record.reference_question = EmptyText
                         /\ record.question_match_score = 0
       /\ ResultEntryFails =>
            \A q \in DOMAIN UnansweredQuestions :
                unanswered_questionnaire'.questions[q].answer_match_score =
                    IF IdenticalAnswers(q) THEN ScoreOne ELSE 0]_vars

\* C16: the assembled table has exactly one row per record of the unanswered
\* store, in store order: as many rows as records (also none for the empty
\* store), the i-th row being the row of the i-th key.
C16_OneRowPerRecordInStoreOrder ==
    pc = "done" =>
        /\ Len(combined_questionnaire_rows) = Cardinality(DOMAIN UnansweredQuestions)
        /\ Len(combined_questionnaire_rows) = Len(unanswered_questionnaire.order)
        /\ \A i \in 1..Len(combined_questionnaire_rows) :
               combined_questionnaire_rows[i].Current_Question = unanswered_questionnaire.order[i]
        /\ \A q \in DOMAIN UnansweredQuestions :
               \E i \in 1..Len(combined_questionnaire_rows) :
                   combined_questionnaire_rows[i].Current_Question = q

\* A table of two rows, one for a record with a match and one for a record
\* without.
C16_Witness ==
    /\ pc = "done"
    /\ Len(combined_questionnaire_rows) = 2
    /\ combined_questionnaire_rows[1].Matched_Question_Row # -1
    /\ combined_questionnaire_rows[2].Matched_Question_Row = -1

\* C17 as stated: in every assembled row, if the record has a reference match
\* (by the exact matcher, the static table or the collaborator) the reference
\* index is the matched reference record's origin_id + 1 and the matched
\* answer is that record's answer; if it has no match, the reference index is
\* -1 and the matched answer is empty.
C17_RowIndexAndAnswerFollowTheMatch ==
    pc = "done" =>
        \A q \in DOMAIN UnansweredQuestions :
            LET matched_text == UnansweredQuestions[q].reference_question
            IN  IF ~Absent(matched_text)
                THEN /\ matched_text \in DOMAIN ReferenceQuestions
                     /\ RowOf(q).Matched_Question_Row = ReferenceQuestions[matched_text].question_id + 1
                     /\ RowOf(q).Matched_Answer = ReferenceQuestions[matched_text].answer
                ELSE /\ RowOf(q).Matched_Question_Row = -1
                     /\ RowOf(q).Matched_Answer = EmptyText

\* C18: in a styled table a score cell is flagged exactly when its value is
\* strictly below accuracy_threshold, so a score equal to the threshold is
\* not flagged; and the values of the saved table are the assembled rows,
\* styled or not.
C18_FlaggedIffStrictlyBelowThreshold ==
    pc = "done" =>
        /\ worksheet.values = combined_questionnaire_rows
        /\ Len(worksheet.fill) = Len(worksheet.values)
        /\ worksheet.styled =>
            \A i \in 1..Len(worksheet.values) :
                /\ worksheet.fill[i].Question_Match_Score
                       <=> worksheet.values[i].Question_Match_Score < AccuracyThreshold
                /\ worksheet.fill[i].Answer_Match_Score
                       <=> worksheet.values[i].Answer_Match_Score < AccuracyThreshold

\* A styled table with a row whose answer score equals the threshold and is
\* not flagged, while its question score, below the threshold, is.
C18_Witness ==
    /\ pc = "done"
    /\ worksheet.styled
    /\ \E i \in 1..Len(worksheet.values) :
        /\ worksheet.values[i].Answer_Match_Score = AccuracyThreshold
        /\ ~worksheet.fill[i].Answer_Match_Score
        /\ worksheet.values[i].Question_Match_Score = 50
        /\ worksheet.fill[i].Question_Match_Score

\* C19: normalization is idempotent: applying _clean_question to a text it
\* returned gives that text back.
C19_NormalizeIsIdempotent ==
    (call.op = "_clean_question" /\ Len(call.result) = 2) =>
        call.result[2] = call.result[1]

\* A raw text that NFKC, the whitespace collapse and the trimming all change,
\* normalized twice: a spacing diaeresis and a fullwidth letter around a run of
\* whitespace, with an outer blank.
C19_Witness ==
    /\ call.op = "_clean_question"
    /\ Len(call.result) = 2
    /\ call.arg = <<"DIAERESIS", "NBSP", "TAB", "FW_A", " ">>
    /\ call.result[1] = <<"COMB", " ", "A">>

LastRowOf(rows, key) ==
    CHOOSE i \in 1..Len(rows) :
        /\ CleanQuestion(rows[i].question) = key
        /\ \A j \in (i + 1)..Len(rows) : CleanQuestion(rows[j].question) # key

\* C21: building a store never fails on rows that normalize to the same key;
\* the store holds one record per distinct normalized key, and the record
\* carries the data of the last row with that key: its origin_id and its
\* answer, or the empty answer when that row's answer is blank.
C21_LaterDuplicateOverwrites ==
    /\ (call.op = "_build_questions" /\ ~call.returned) => ENABLED BuildQuestionsReturns
    /\ (call.op = "_build_questions" /\ call.returned) =>
        LET rows == call.arg.rows
            store == call.result
            keys == {CleanQuestion(rows[i].question) : i \in 1..Len(rows)}
        IN  /\ DOMAIN store.questions = keys
            /\ Len(store.order) = Cardinality(keys)
            /\ \A key \in keys :
                LET last == rows[LastRowOf(rows, key)]
                    record == store.questions[key]
                IN  /\ record.question = key
                    /\ record.question_id = LastRowOf(rows, key) - 1
                    /\ record.is_reference = call.arg.is_reference
                    /\ record.answer = IF last.answer = NaN \/ Strip(last.answer) = <<>>
                                       THEN EmptyText ELSE last.answer

\* Two rows whose different raw questions normalize to one key, the first
\* answered and the second blank: one record, with the second row's data.
C21_Witness ==
    /\ call.op = "_build_questions" /\ call.returned
    /\ Len(call.arg.rows) = 2
    /\ call.arg.rows[1] = [question |-> <<"FW_A">>, answer |-> <<"Y">>]
    /\ call.arg.rows[2] = [question |-> <<"TAB", "A", " ">>, answer |-> NaN]
    /\ DOMAIN call.result.questions = {<<"A">>}
    /\ call.result.questions[<<"A">>].answer = EmptyText
    /\ call.result.questions[<<"A">>].question_id = 1

\* The run was given a path whose file cannot be loaded.
LoadErrorIn(file) == file.kind # "ok"

\* C22: when either source cannot be loaded (missing file, unsupported or
\* unreadable format, missing question or answer column) the run never gets
\* past the construction of the stores: no matching stage runs, no request is
\* issued and nothing is written; the exception is raised by the construction
\* of the store whose source is at fault (or, for a missing file, by main()'s
\* own check), a run from the command line ends with status 1, and a missing
\* column is raised as a KeyError.
C22_LoadErrorIsFatalBeforeMatching ==
    (call.op \in {"main", "Questionnaire_Filler"}
     /\ (LoadErrorIn(call.arg.reference_file) \/ LoadErrorIn(call.arg.unanswered_file))) =>
        /\ pc \in {"main", "load_reference", "load_unanswered", "failed"}
        /\ match_requests = 0 /\ score_requests = 0
        /\ ~output_written /\ worksheet = NoWorksheet /\ combined_questionnaire_rows = <<>>
        /\ \A q \in DOMAIN unanswered_questionnaire.questions :
               unanswered_questionnaire.questions[q].reference_question = EmptyText
        /\ pc = "failed" =>
            /\ raised_in \in {"main", "load_reference", "load_unanswered"}
            /\ call.op = "main" => exit_status = 1
            /\ raised_in = "load_reference" =>
                /\ LoadErrorIn(call.arg.reference_file)
                /\ call.arg.reference_file.kind \in {"no_question_col", "no_answer_col"}
                       => call.result = KeyError
            /\ raised_in = "load_unanswered" =>
                /\ LoadErrorIn(call.arg.unanswered_file)
                /\ call.arg.unanswered_file.kind \in {"no_question_col", "no_answer_col"}
                       => call.result = KeyError
        /\ (pc = "load_reference" /\ LoadErrorIn(call.arg.reference_file)) =>
               ENABLED LoadReference
        /\ (pc = "load_unanswered" /\ LoadErrorIn(call.arg.unanswered_file)) =>
               ENABLED LoadUnanswered

\* A run from the command line whose reference source loads and whose
\* unanswered source has no answer column has ended with a KeyError and
\* status 1, the reference store built and nothing requested or written.
C22_Witness ==
    /\ call.op = "main"
    /\ call.arg.reference_file.kind = "ok"
    /\ call.arg.unanswered_file.kind = "no_answer_col"
    /\ pc = "failed" /\ raised_in = "load_unanswered"
    /\ call.result = KeyError
    /\ exit_status = 1
    /\ DOMAIN reference_questionnaire.questions # {}
    /\ match_requests = 0 /\ ~output_written

\* C23: every assembled row has the fields "Question ID", "Current Question",
\* "Current Answer", "Matched Question", "Matched Answer", "Question Match
\* Score" and "Answer Match Score" (written here with _ for the blank), and
\* the "Question ID" of a record whose match is a reference key is that
\* reference record's origin_id + 1.
C23_RowsHaveQuestionIdField ==
    \A i \in 1..Len(combined_questionnaire_rows) :
        LET row == combined_questionnaire_rows[i]
            record == UnansweredQuestions[row.Current_Question]
        IN  /\ {"Question_ID", "Current_Question", "Current_Answer", "Matched_Question",
                "Matched_Answer", "Question_Match_Score", "Answer_Match_Score"}
                   \subseteq DOMAIN row
            /\ (record.reference_question # EmptyText
                /\ record.reference_question \in DOMAIN ReferenceQuestions) =>
                   row["Question_ID"] = ReferenceQuestions[record.reference_question].question_id + 1

\* The link of every unanswered record.
Links == [q \in DOMAIN UnansweredQuestions |-> UnansweredQuestions[q].reference_question]

\* The answer score of every unanswered record.
AnswerScores == [q \in DOMAIN UnansweredQuestions |-> UnansweredQuestions[q].answer_match_score]

\* The order of the stages: each pair is a stage and one that may follow it.
StageOrder ==
    {<<"start", "exact_matched">>,
     <<"exact_matched", "fill_best_matches">>, <<"exact_matched", "failed">>,
     <<"fill_best_matches", "score_request">>, <<"fill_best_matches", "scored">>,
     <<"fill_best_matches", "failed">>,
     <<"score_request", "fill_scores">>, <<"score_request", "scored">>,
     <<"score_request", "failed">>,
     <<"fill_scores", "scored">>,
     <<"scored", "done">>}

\* C24: the stages run in the order exact matching, semantic request,
\* application of the verdicts, collection of the answer candidates, scoring
\* request, application of the scores, assembly. Each step of a run moves
\* along that order; links change only in exact matching and while verdicts
\* are applied; the batch is computed in a step that follows the application
\* of the verdicts, from the links of that moment, which no later step
\* changes; and rows are assembled only by the step that follows the end of
\* scoring.
C24_StagesRunInOrder ==
    [][/\ pc' # pc => <<pc, pc'>> \in StageOrder
       /\ Links' # Links => pc \in {"start", "fill_best_matches"} /\ items_json' = <<>>
       /\ match_requests' # match_requests => pc = "exact_matched"
       /\ items_json' # items_json =>
            /\ pc = "fill_best_matches" /\ pc' \in {"score_request", "failed"}
            /\ Links' = Links
            /\ \A i \in 1..Len(items_json') :
                   items_json'[i].a2 = ReferenceQuestions[Links[items_json'[i].q]].answer
       /\ score_requests' # score_requests => pc = "score_request"
       /\ (AnswerScores' # AnswerScores /\ pc # "fill_best_matches") => pc = "fill_scores"
       /\ combined_questionnaire_rows' # combined_questionnaire_rows =>
            /\ pc = "scored" /\ pc' = "done"
            /\ combined_questionnaire_rows = <<>>
       /\ output_written' # output_written => pc = "scored"]_vars

\* A finished run in which every stage acted: a verdict and a score were
\* applied, both requests were issued and rows were assembled.
C24_Witness ==
    /\ pc = "done"
    /\ match_requests = 1 /\ score_requests = 1
    /\ \E q \in DOMAIN UnansweredQuestions :
        /\ verdict_of[q] # NoVerdict
        /\ result_of[q] # NoResult
        /\ q \in BatchQuestions
        /\ q \in unanswered_questions_remaining
    /\ combined_questionnaire_rows # <<>>

\* C25: the entries of the matches array are applied in array order: for the
\* last entry read so far that names an unanswered record, when its match is
\* an object the record's matched_reference_text is match.matched_question
\* and its question_match_score is match.similarity, and when its match is
\* null the record's matched_reference_text is null and its score is 0.
C25_VerdictsAreApplied ==
    \A q \in DOMAIN UnansweredQuestions :
        verdict_of[q] # NoVerdict =>
            LET match == verdict_of[q].match
                record == UnansweredQuestions[q]
            IN  /\ match.kind \in {"object", "null"}
                /\ match.kind = "object" =>
                    /\ record.reference_question = match.matched_question
                    /\ record.question_match_score = match.similarity
                /\ match.kind = "null" =>
                    /\ record.reference_question = None
                    /\ record.question_match_score = 0

\* Two entries have been read: a null verdict for a record the exact matcher
\* had linked, and a verdict with a match for a record it had not.
C25_Witness ==
    /\ matches_read = 2
    /\ \E q1, q2 \in DOMAIN UnansweredQuestions :
        /\ q1 \in ExactMatched
        /\ verdict_of[q1].match.kind = "null"
        /\ UnansweredQuestions[q1].reference_question = None
        /\ q2 \in unanswered_questions_remaining
        /\ verdict_of[q2].match.kind = "object"
        /\ UnansweredQuestions[q2].reference_question = verdict_of[q2].match.matched_question
        /\ UnansweredQuestions[q2].question_match_score = 50

\* The answer_match_score a record has when the scoring request is sent: 1
\* when its answers were found identical locally, otherwise the default 0.
ScoreBeforeResponse(q) == IF IdenticalAnswers(q) THEN ScoreOne ELSE 0

\* C26 as stated: after a scoring response that parsed, and whose entries
\* naming a record all carry an s, has been processed, every record has the s
\* of every entry {q, s} that names it, and a record that no entry names has
\* the score it had before the response.
C26_Original ==
    (/\ pc \in {"scored", "done"} /\ score_response = "parsed"
     /\ \A q \in DOMAIN UnansweredQuestions : result_of[q].kind # "no_s") =>
        \A q \in DOMAIN UnansweredQuestions :
            /\ \A s \in result_of[q].returned : UnansweredQuestions[q].answer_match_score = s
            /\ result_of[q] = NoResult =>
                   UnansweredQuestions[q].answer_match_score = ScoreBeforeResponse(q)

\* C26: once the batch is collected, and through the processing of the
\* scoring response, every record has the s of the last entry {q, s} that
\* names it, and a record that no entry names has the score it had before
\* the response (1 if its answers were identical, else 0).
C26_LastNamedScoreElsePrior ==
    Collected =>
        \A q \in DOMAIN UnansweredQuestions :
            /\ result_of[q].kind = "object" =>
                   UnansweredQuestions[q].answer_match_score = result_of[q].s
            /\ result_of[q] = NoResult =>
                   UnansweredQuestions[q].answer_match_score = ScoreBeforeResponse(q)

\* A response has been processed that named one record of the batch and left
\* out a record scored locally as identical.
C26_Witness ==
    /\ pc = "scored" /\ score_response = "parsed"
    /\ \E q1, q2 \in DOMAIN UnansweredQuestions :
        /\ q1 \in BatchQuestions
        /\ result_of[q1].kind = "object" /\ result_of[q1].returned = {50}
        /\ UnansweredQuestions[q1].answer_match_score = 50
        /\ q2 \notin BatchQuestions
        /\ result_of[q2] = NoResult
        /\ UnansweredQuestions[q2].answer_match_score = ScoreOne

\* C27: right after match_exact, an unanswered record whose key is in the
\* static table is linked to the table's reference key with score 1, its key
\* is not in remaining_unanswered and the table's reference key is not in
\* remaining_reference, whether or not its key is also a reference key; when
\* it is, the table's target has replaced the direct link and the reference
\* key equal to the record's key is not in remaining_reference either.
C27_StaticOverrideWins ==
    pc = "exact_matched" =>
        \A q \in DOMAIN UnansweredQuestions \cap DOMAIN StaticComplianceMatches :
            /\ UnansweredQuestions[q].reference_question = StaticComplianceMatches[q]
            /\ UnansweredQuestions[q].question_match_score = ScoreOne
            /\ q \notin unanswered_questions_remaining
            /\ StaticComplianceMatches[q] \notin reference_questions_remaining
            /\ q \in DOMAIN ReferenceQuestions =>
                /\ UnansweredQuestions[q].reference_question # q
                /\ q \notin reference_questions_remaining

\* match_exact has run on an unanswered record whose key is in the static
\* table and is also a reference key, with the table's target a reference
\* key too: the record is linked to the target and both reference keys have
\* left remaining_reference.
C27_Witness ==
    /\ pc = "exact_matched"
    /\ StaticQuestion \in DOMAIN UnansweredQuestions
    /\ StaticQuestion \in DOMAIN ReferenceQuestions
    /\ Classification \in DOMAIN ReferenceQuestions
    /\ UnansweredQuestions[StaticQuestion].reference_question = Classification
    /\ reference_questions_remaining = {}

\* C28: no step of the pipeline inserts or removes a record in either store
\* or changes the order of a store, changes any field of a reference record,
\* or changes the text, answer, origin_id or is_reference of an unanswered
\* record: only matched_reference_text, question_match_score and
\* answer_match_score of unanswered records change.
C28_OnlyLinkAndScoresChange ==
    [][/\ reference_questionnaire' = reference_questionnaire
       /\ unanswered_questionnaire'.order = unanswered_questionnaire.order
       /\ unanswered_questionnaire'.is_reference = unanswered_questionnaire.is_reference
       /\ DOMAIN UnansweredQuestions' = DOMAIN UnansweredQuestions
       /\ \A q \in DOMAIN UnansweredQuestions :
            /\ UnansweredQuestions'[q].question = UnansweredQuestions[q].question
            /\ UnansweredQuestions'[q].answer = UnansweredQuestions[q].answer
            /\ UnansweredQuestions'[q].question_id = UnansweredQuestions[q].question_id
            /\ UnansweredQuestions'[q].is_reference = UnansweredQuestions[q].is_reference]_vars

\* A finished run in which a record's link and both of its scores were
\* written by the stages: a verdict gave it a reference key and a similarity,
\* and a result gave it an answer score.
C28_Witness ==
    /\ pc = "done"
    /\ \E q \in DOMAIN UnansweredQuestions :
        /\ verdict_of[q].match.kind = "object"
        /\ UnansweredQuestions[q].reference_question \in DOMAIN ReferenceQuestions
        /\ UnansweredQuestions[q].question_match_score = 50
        /\ result_of[q].kind = "object"
        /\ UnansweredQuestions[q].answer_match_score = AccuracyThreshold

\* C29: in every state from the end of exact matching on, each unanswered
\* record's matched_reference_text is absent (null or empty) or a key of the
\* reference store, and the answer scorer's lookup of the reference record
\* never fails.
C29_LinksAreReferenceKeys ==
    /\ pc # "start" =>
        \A q \in DOMAIN UnansweredQuestions :
            \/ Absent(UnansweredQuestions[q].reference_question)
            \/ UnansweredQuestions[q].reference_question \in DOMAIN ReferenceQuestions
    /\ raised_in # "get_items"

\* C30: the semantic stage leaves alone the records it was not asked about:
\* from the end of exact matching on, every unanswered record whose key is
\* not in remaining_unanswered has the link and the score the exact matcher
\* gave it (the same key, or the static table's target, and 1), whatever the
\* matches array contains.
C30_ExactMatchesSurviveVerdicts ==
    pc # "start" =>
        \A q \in ExactMatched :
            /\ UnansweredQuestions[q].reference_question = ExactLink(q)
            /\ UnansweredQuestions[q].question_match_score = ScoreOne

====
